---- MODULE Spec2Model ----
(***************************************************************************)
(* hubble-ui: the ArrowsRenderer component (arrow handle geometry, the     *)
(* flattening of the sender-arrows map into four keyed collections and     *)
(* their keyed d3 join into the SVG scene, the React effect that triggers  *)
(* it) and the AccessPoint component (L7 label, connectorRef publishing).  *)
(***************************************************************************)
EXTENDS Integers, Sequences, FiniteSets, TLC

VARIABLES
  hStart,        \* senderArrows.startPoint of the path handed to arrowHandleFromPoints
  hWaypoints,    \* connectorArrow.points of that path
  handleWidth,   \* sizes.arrowHandleWidth
  hOut,          \* [done, handle]: the value arrowHandleFromPoints returned
  apMounted,     \* AccessPoint: whether the component is mounted
  apMounts,      \* AccessPoint: how many times it has been mounted (names its element)
  apProps,       \* AccessPoint: the props of its last render
  apAnchor,      \* AccessPoint: connectorRef.current of its own useRef
  apDeps,        \* AccessPoint: the dependency list useLayoutEffect keeps
  apView,        \* AccessPoint: what the last render returned
  cells,         \* the connectorRef cells of the caller: cell -> current
  apLast,        \* the last step: its kind, the previous connectorRef, the cell writes
  mounted,       \* ArrowsRenderer: whether the component is mounted
  rootRef,       \* ArrowsRenderer: rootRef.current, <<>> (null) or the root g element
  arProps,       \* ArrowsRenderer: the props of its last render
  arRefs,        \* the references of the two Map objects in props
  deps,          \* the dependency list useEffect keeps
  effect,        \* the pending passive effect, <<>> or <<[props, refs]>> it closed over
  scene,         \* the g elements of the four groups under the root
  flat,          \* the four arrays the last manageArrows call built
  lastArgs,      \* the props of the last manageArrows call
  lastRefs,      \* the references of the Map objects of that call
  ran,           \* whether manageArrows has run on this scene
  tick           \* flips at every manageArrows call

handleVars == <<hStart, hWaypoints, handleWidth, hOut>>

apVars == <<apMounted, apMounts, apProps, apAnchor, apDeps, apView, cells, apLast>>

arrowsVars == <<mounted, rootRef, arProps, arRefs, deps, effect, scene, flat,
                lastArgs, lastRefs, ran, tick>>

vars == <<handleVars, apVars, arrowsVars>>

(***************************************************************************)
(* Bounds                                                                  *)
(***************************************************************************)
MaxWaypoints == 3

MaxMounts == 2

MaxReceivers == 1

MaxFanOut == 2

(***************************************************************************)
(* Vec2 (~/domain/geometry).  Coordinates are fixed-point numbers: the     *)
(* integer stored is the coordinate times Scale.  The points used below    *)
(* lie on the grid {0,10} x {0,24}, whose pairwise distances (10, 24, 26)  *)
(* are integers, so that sqrt, the division by the length and the halving  *)
(* are all exact with Scale = 26.                                          *)
(***************************************************************************)
Scale == 26

Vec(px, py) == [x |-> px * Scale, y |-> py * Scale]

Quot(a, b) == IF a >= 0 THEN a \div b ELSE -((-a) \div b)

Abs(a) == IF a >= 0 THEN a ELSE -a

\* the integer square root, by Newton's iteration from above
RECURSIVE IsqrtFrom(_, _)
IsqrtFrom(n, x) ==
  LET y == (x + n \div x) \div 2
  IN  IF y >= x THEN x ELSE IsqrtFrom(n, y)

Isqrt(n) == IF n = 0 THEN 0 ELSE IsqrtFrom(n, n)

Norm(v) == Isqrt(v.x * v.x + v.y * v.y)

add(a, b) == [x |-> a.x + b.x, y |-> a.y + b.y]

sub(a, b) == [x |-> a.x - b.x, y |-> a.y - b.y]

\* k is a fixed-point scalar (the number times Scale)
mul(v, k) == [x |-> Quot(v.x * k, Scale), y |-> Quot(v.y * k, Scale)]

linterp(a, b, t) == add(a, mul(sub(b, a), t))

normalize(v) ==
  LET len == Norm(v)
  IN  IF len = 0 THEN [x |-> 0, y |-> 0]
      ELSE [x |-> Quot(v.x * Scale, len), y |-> Quot(v.y * Scale, len)]

isZero(v) == v.x = 0 /\ v.y = 0

Half == Scale \div 2

GridPoints == {Vec(px, py) : px \in {0, 10}, py \in {0, 24}}

HandleWidths == {4, 10}

WaypointSeqs == UNION {[1..n -> GridPoints] : n \in 0..MaxWaypoints}

(***************************************************************************)
(* arrowHandleFromPoints.  null is the empty tuple, a handle the pair      *)
(* <<handleFrom, handleTo>>.  points[i] of the code is points[i + 1] here. *)
(***************************************************************************)
NoHandle == <<>>

\* manageArrows: [senderArrows.startPoint].concat(connectorArrow.points)
AllPoints(startPoint, points) == <<startPoint>> \o points

HandleNoZeroCheck(points) ==
  IF Len(points) < 3 THEN NoHandle
  ELSE LET start == points[2]
           end == points[3]
           mid == linterp(start, end, Half)
           direction == normalize(sub(end, start))
           handleLength == handleWidth * Scale
       IN  <<sub(mid, mul(direction, handleLength \div 2)),
             add(mid, mul(direction, handleLength \div 2))>>

HandleShiftedIndex(points) ==
  IF Len(points) < 3 THEN NoHandle
  ELSE LET start == points[1]
           end == points[2]
           mid == linterp(start, end, Half)
           direction == normalize(sub(end, start))
           handleLength == handleWidth * Scale
       IN  IF isZero(direction) THEN NoHandle
           ELSE <<sub(mid, mul(direction, handleLength \div 2)),
                  add(mid, mul(direction, handleLength \div 2))>>

arrowHandleFromPoints(points) ==
  IF Len(points) < 3 THEN NoHandle
  ELSE LET start == points[2]
           end == points[3]
           mid == linterp(start, end, Half)
           direction == normalize(sub(end, start))
           handleLength == handleWidth * Scale
       IN  IF isZero(direction) THEN NoHandle
           ELSE <<sub(mid, mul(direction, handleLength \div 2)),
                  add(mid, mul(direction, handleLength \div 2))>>

(***************************************************************************)
(* Sequences                                                               *)
(***************************************************************************)
Range(s) == {s[i] : i \in 1..Len(s)}

RECURSIVE ConcatAll(_)
ConcatAll(ss) == IF ss = <<>> THEN <<>> ELSE Head(ss) \o ConcatAll(Tail(ss))

\* the elements of the sequence order that are in the set keys, in that order
InOrder(order, keys) == SelectSeq(order, LAMBDA k : k \in keys)

(***************************************************************************)
(* Ids are strings.  A string is written as the sequence of its pieces;    *)
(* the piece SEP is the text " -> ", the other pieces are letters, so two  *)
(* strings are equal exactly when their sequences are.  A Map iterates in  *)
(* insertion order: the maps below are built in the order of SenderOrder,  *)
(* ReceiverOrder and ApOrder.                                              *)
(***************************************************************************)
SEP == " -> "

SenderOrder == << <<"s">>, <<"s", SEP, "r">> >>

ReceiverOrder == << <<"r">>, <<"r", SEP, "r">> >>

ApOrder == << <<"a">>, <<"b">> >>

SenderIds == Range(SenderOrder)

ReceiverIds == Range(ReceiverOrder)

ApIds == Range(ApOrder)

\* `${senderId} -> ${receiverId}`
fromToId(senderId, receiverId) == senderId \o <<SEP>> \o receiverId

\* `${fromToId} -> ${apId}`
feetId(fromTo, apId) == fromTo \o <<SEP>> \o apId

(***************************************************************************)
(* Props: arrows: Map<string, SenderArrows>, apPositions: Map<string,      *)
(* Vec2>.  A Map is a function on its key set.                             *)
(***************************************************************************)
MapsOver(keys, maxSize, vals) ==
  UNION {[D -> vals] : D \in {X \in SUBSET keys : Cardinality(X) <= maxSize}}

ConnectorPosition == Vec(10, 24)

LongPath == <<Vec(10, 0), Vec(10, 24), Vec(0, 24)>>

ShortPath == <<Vec(10, 24)>>

StartPoints == {Vec(0, 0), Vec(10, 0)}

ApPoints == {Vec(0, 24), Vec(10, 0)}

ConnectorArrowsOver(paths, apIds, maxFan) ==
  {[points |-> p, connector |-> [position |-> ConnectorPosition, apIds |-> A]] :
     p \in paths, A \in {X \in SUBSET apIds : Cardinality(X) <= maxFan}}

PropsOver(senderIds, receiverIds, apIds, startPoints, paths, maxRecv, maxFan) ==
  [arrows :
     MapsOver(senderIds, Cardinality(senderIds),
              [startPoint : startPoints,
               arrows : MapsOver(receiverIds, maxRecv,
                                 ConnectorArrowsOver(paths, apIds, maxFan))]),
   apPositions : MapsOver(apIds, Cardinality(apIds), ApPoints)]

EmptyProps == [arrows |-> <<>>, apPositions |-> <<>>]

(***************************************************************************)
(* manageArrows, first half: the four flat arrays.  An entry [key, value]  *)
(* of the code is the record [key, val].                                   *)
(***************************************************************************)
\* apPositions.get(apId): <<>> when the map has no such key
Get(map, key) == IF key \in DOMAIN map THEN <<map[key]>> ELSE <<>>

FeetsOfNoSkip(fromTo, connector, apPositions) ==
  LET ids == InOrder(ApOrder, connector.apIds)
  IN  [i \in 1..Len(ids) |->
         [key |-> feetId(fromTo, ids[i]),
          val |-> <<connector.position>> \o Get(apPositions, ids[i])]]

\* connectorArrow.connector.apIds.forEach(...)
FeetsOf(fromTo, connector, apPositions) ==
  LET ids == InOrder(ApOrder, connector.apIds)
      known == SelectSeq(ids, LAMBDA apId : Get(apPositions, apId) # <<>>)
  IN  [i \in 1..Len(known) |->
         [key |-> feetId(fromTo, known[i]),
          val |-> <<connector.position>> \o Get(apPositions, known[i])]]

ArrowOf(senderId, senderArrows, receiverId) ==
  LET allPoints == AllPoints(senderArrows.startPoint,
                             senderArrows.arrows[receiverId].points)
  IN  [key |-> fromToId(senderId, receiverId),
       val |-> [points |-> allPoints, handle |-> arrowHandleFromPoints(allPoints)]]

ConnectorOf(senderId, senderArrows, receiverId) ==
  [key |-> fromToId(senderId, receiverId),
   val |-> senderArrows.arrows[receiverId].connector.position]

Flatten(props) ==
  LET senders == InOrder(SenderOrder, DOMAIN props.arrows)
      receivers(s) == InOrder(ReceiverOrder, DOMAIN props.arrows[s].arrows)
      perReceiver(s, Entry(_, _, _)) ==
        LET rs == receivers(s)
        IN  [j \in 1..Len(rs) |-> Entry(s, props.arrows[s], rs[j])]
      feetsOfReceiver(s, sa, r) ==
        FeetsOf(fromToId(s, r), sa.arrows[r].connector, props.apPositions)
  IN  [startPlates |->
         [i \in 1..Len(senders) |->
            [key |-> senders[i], val |-> props.arrows[senders[i]].startPoint]],
       arrows |->
         ConcatAll([i \in 1..Len(senders) |-> perReceiver(senders[i], ArrowOf)]),
       connectors |->
         ConcatAll([i \in 1..Len(senders) |-> perReceiver(senders[i], ConnectorOf)]),
       feets |->
         ConcatAll([i \in 1..Len(senders) |->
                      ConcatAll(perReceiver(senders[i], feetsOfReceiver))])]

Groups == {"startPlates", "arrows", "connectors", "feets"}

Keys(s) == {s[i].key : i \in 1..Len(s)}

Ids(s) == {s[i].id : i \in 1..Len(s)}

(***************************************************************************)
(* manageArrows, second half: group.selectAll('g').data(entries, d => d[0])*)
(* .join(enter, update) of d3-selection.  A group is the sequence of its   *)
(* g elements in document order; an element is [id, key, geom]: its        *)
(* identity, the key of the datum bound to it, and the geometry attributes *)
(* that enter and update set from the datum.                               *)
(*   bindKey: the first element of each key is registered, later elements  *)
(* of the same key exit; the first datum of a key takes the registered     *)
(* element (update), every other datum enters; unmatched elements exit.    *)
(*   enter.append('g') inserts a new element before the element of the     *)
(* next updating datum, or at the end of the group; exit.remove() removes. *)
(*   join ends with merge(update).order() on what enter and update         *)
(* returned: for the arrows group these are the g elements, which end in   *)
(* data order (ordered = TRUE); for the other groups they are the shapes   *)
(* inside the g elements, and the g elements stay where they are.          *)
(***************************************************************************)
Min(S) == CHOOSE x \in S : \A y \in S : x <= y

FirstNode(group, k) ==
  Min({i \in 1..Len(group) : group[i].key = k})

UpdateIndex(group, data, j) ==
  IF /\ \A j2 \in 1..(j - 1) : data[j2].key # data[j].key
     /\ \E i \in 1..Len(group) : group[i].key = data[j].key
  THEN FirstNode(group, data[j].key)
  ELSE 0

Join(group, data, ordered) ==
  LET n == Len(group)
      m == Len(data)
      upd == [j \in 1..m |-> UpdateIndex(group, data, j)]
      enters == {j \in 1..m : upd[j] = 0}
      free == (1..(n + m)) \ Ids(group)
      newId(j) ==
        CHOOSE x \in free :
          Cardinality({y \in free : y < x}) = Cardinality({j2 \in enters : j2 < j})
      nodeOf(j) ==
        IF upd[j] = 0
        THEN [id |-> newId(j), key |-> data[j].key, geom |-> data[j].val]
        ELSE [id |-> group[upd[j]].id, key |-> data[j].key, geom |-> data[j].val]
      anchor(j) ==
        LET later == {j2 \in (j + 1)..m : upd[j2] # 0}
        IN  IF later = {} THEN 0 ELSE upd[Min(later)]
      indices == [j \in 1..m |-> j]
      entersAt(i) == SelectSeq(indices, LAMBDA j : upd[j] = 0 /\ anchor(j) = i)
      nodesOf(js) == [x \in 1..Len(js) |-> nodeOf(js[x])]
      updatesOf(i) == SelectSeq(indices, LAMBDA j : upd[j] = i)
  IN  IF ordered THEN nodesOf(indices)
      ELSE ConcatAll([i \in 1..n |-> nodesOf(entersAt(i)) \o nodesOf(updatesOf(i))])
             \o nodesOf(entersAt(0))

EmptyScene == [g \in Groups |-> <<>>]

manageArrows(props, scene0) ==
  LET flat0 == Flatten(props)
  IN  [flat |-> flat0,
       scene |-> [g \in Groups |-> Join(scene0[g], flat0[g], g = "arrows")]]

(***************************************************************************)
(* ArrowsRenderer: useEffect(() => {...}, [props.arrows, props.apPositions,*)
(* rootRef]).  A Map object is named by a reference; React compares the    *)
(* dependencies of two renders by reference.                               *)
(***************************************************************************)
Refs == {0, 1}

RefPairs == [arrows : Refs, apPositions : Refs]

DepsOf(refs) == <<refs.arrows, refs.apPositions, "rootRef">>

EffectScheduledArrowsOnly(isMount, oldDeps, newDeps) ==
  isMount \/ oldDeps[1] # newDeps[1]

\* the effect runs after the first render and after a render in which a
\* dependency differs from the one of the previous render
EffectScheduled(isMount, oldDeps, newDeps) ==
  isMount \/ \E i \in 1..Len(newDeps) : oldDeps[i] # newDeps[i]

(***************************************************************************)
(* AccessPoint.  IPProtocol and L7Kind (~/domain/hubble) are enumerations; *)
(* an absent optional prop is Undefined.  A ref cell holds <<>> (null) or  *)
(* <<e>> (the element e).                                                  *)
(***************************************************************************)
Undefined == "<undefined>"

IPProtocols == {"TCP", "UDP", "ICMPv4", "ICMPv6"}

L7Unknown == "unknown"

L7Kinds == {L7Unknown, "http", "dns", "kafka"}

Ports == {80, 443}

CellIds == {"cellA", "cellB"}

NullRef == <<>>

APPropsSet ==
  [port : Ports,
   l4Protocol : IPProtocols,
   l7Protocol : L7Kinds \cup {Undefined},
   connectorRef : CellIds \cup {Undefined}]

\* JavaScript truthiness of an optional string-valued prop
Truthy(v) == v # Undefined /\ v # ""

ShowL7NoUnknownCheck(props) == props.l7Protocol # Undefined

showL7Protocol(props) ==
  props.l7Protocol # Undefined /\ props.l7Protocol # L7Unknown

showPort(props) ==
  props.l4Protocol # "ICMPv4" /\ props.l4Protocol # "ICMPv6"

\* the returned element tree, as far as it depends on the props
APRenderView(props) ==
  [port |-> showPort(props),
   l7Label |-> Truthy(props.l7Protocol) /\ showL7Protocol(props)]

\* the body of the layout effect: the writes it makes, in order
LayoutEffectWrites(props, anchor) ==
  IF props.connectorRef = Undefined \/ anchor = NullRef THEN <<>>
  ELSE <<[cell |-> props.connectorRef, value |-> anchor]>>

LayoutEffectRunsAlways(isMount, oldDeps, newDeps) == TRUE

\* useLayoutEffect(..., [props.connectorRef]): on mount, then when a
\* dependency differs from the one of the previous render
LayoutEffectRuns(isMount, oldDeps, newDeps) == isMount \/ oldDeps # newDeps

ApplyWrites(store, writes) ==
  [c \in DOMAIN store |->
     IF \E i \in 1..Len(writes) : writes[i].cell = c
     THEN (CHOOSE w \in {writes[i] : i \in 1..Len(writes)} : w.cell = c).value
     ELSE store[c]]

(***************************************************************************)
(* The state of each part before anything has run                          *)
(***************************************************************************)
HandleIdle ==
  /\ hStart = Vec(0, 0)
  /\ hWaypoints = <<>>
  /\ handleWidth = 4
  /\ hOut = [done |-> FALSE, handle |-> NoHandle]

APIdle ==
  /\ apMounted = FALSE
  /\ apMounts = 0
  /\ apProps = [port |-> 80, l4Protocol |-> "TCP", l7Protocol |-> Undefined,
                connectorRef |-> Undefined]
  /\ apAnchor = NullRef
  /\ apDeps = <<Undefined>>
  /\ apView = [port |-> FALSE, l7Label |-> FALSE]
  /\ cells = [c \in CellIds |-> NullRef]
  /\ apLast = [kind |-> "none", prevRef |-> <<>>, writes |-> <<>>]

ArrowsIdle ==
  /\ mounted = FALSE
  /\ rootRef = <<>>
  /\ arProps = EmptyProps
  /\ arRefs = [arrows |-> 0, apPositions |-> 0]
  /\ deps = <<>>
  /\ effect = <<>>
  /\ scene = EmptyScene
  /\ flat = EmptyScene
  /\ lastArgs = EmptyProps
  /\ lastRefs = [arrows |-> 0, apPositions |-> 0]
  /\ ran = FALSE
  /\ tick = 0

(***************************************************************************)
(* Specification of the handle computation: a path is drawn, the function  *)
(* is applied to it once.                                                  *)
(***************************************************************************)
InitHandle ==
  /\ APIdle
  /\ ArrowsIdle
  /\ hStart \in GridPoints
  /\ hWaypoints \in WaypointSeqs
  /\ handleWidth \in HandleWidths
  /\ hOut = [done |-> FALSE, handle |-> NoHandle]

ComputeHandle ==
  /\ ~hOut.done
  /\ hOut' = [done |-> TRUE,
              handle |-> arrowHandleFromPoints(AllPoints(hStart, hWaypoints))]
  /\ UNCHANGED <<hStart, hWaypoints, handleWidth>>
  /\ UNCHANGED <<apVars, arrowsVars>>

NextHandle == ComputeHandle

SpecHandle == InitHandle /\ [][NextHandle]_vars

hPath == AllPoints(hStart, hWaypoints)

\* C7: the handle is none exactly when the full path has fewer than 3 points
\* or points[1] = points[2]; in every other case it is a segment (a pair of
\* points).
C7_HandleNoneIff ==
  hOut.done =>
    /\ (Len(hPath) < 3 => hOut.handle = NoHandle)
    /\ (Len(hPath) >= 3 /\ hPath[2] = hPath[3] => hOut.handle = NoHandle)
    /\ (Len(hPath) >= 3 /\ hPath[2] # hPath[3] => Len(hOut.handle) = 2)

C7_Witness ==
  /\ hOut.done
  /\ Len(hPath) = 4
  /\ hPath[2] = hPath[3]
  /\ hPath[1] # hPath[2]
  /\ hOut.handle = NoHandle

SameDirection(u, v) ==
  /\ u.x * v.y - u.y * v.x = 0
  /\ u.x * v.x + u.y * v.y > 0

\* C8: for a path of at least 3 points with points[1] # points[2] the handle
\* is centered on the midpoint of points[1], points[2], has length
\* arrowHandleWidth, points from points[1] to points[2], is the segment
\* (5 - W/2, 0)-(5 + W/2, 0) for points[1] = (0,0), points[2] = (10,0), and
\* is the same for every path with the same points[1] and points[2].
C8_HandleSegment ==
  (hOut.done /\ Len(hPath) >= 3 /\ hPath[2] # hPath[3]) =>
    LET p1 == hPath[2]
        p2 == hPath[3]
        from == hOut.handle[1]
        to == hOut.handle[2]
        d == sub(to, from)
        W == handleWidth * Scale
    IN  /\ Len(hOut.handle) = 2
        /\ add(from, to) = add(p1, p2)
        /\ d.x * d.x + d.y * d.y = W * W
        /\ SameDirection(d, sub(p2, p1))
        /\ (p1 = Vec(0, 0) /\ p2 = Vec(10, 0) =>
              /\ 2 * from.x = (10 - handleWidth) * Scale /\ from.y = 0
              /\ 2 * to.x = (10 + handleWidth) * Scale /\ to.y = 0)
        /\ \A s \in GridPoints : \A w \in WaypointSeqs :
             (Len(w) >= 2 /\ w[1] = p1 /\ w[2] = p2) =>
               arrowHandleFromPoints(AllPoints(s, w)) = hOut.handle

C8_Witness ==
  /\ hOut.done
  /\ Len(hPath) = 4
  /\ hPath[1] = Vec(10, 24)
  /\ hPath[2] = Vec(0, 0)
  /\ hPath[3] = Vec(10, 0)
  /\ hPath[4] = Vec(0, 24)
  /\ Len(hOut.handle) = 2

(***************************************************************************)
(* AccessPoint: mount, render, unmount, and the owner of a cell            *)
(***************************************************************************)
\* first render, commit (the ref of the anchor div is attached), layout effect
APMount(props) ==
  /\ ~apMounted
  /\ apMounts < MaxMounts
  /\ LET anchor == <<apMounts + 1>>
         writes == IF LayoutEffectRuns(TRUE, <<>>, <<props.connectorRef>>)
                   THEN LayoutEffectWrites(props, anchor) ELSE <<>>
     IN  /\ apMounted' = TRUE
         /\ apMounts' = apMounts + 1
         /\ apProps' = props
         /\ apView' = APRenderView(props)
         /\ apAnchor' = anchor
         /\ apDeps' = <<props.connectorRef>>
         /\ cells' = ApplyWrites(cells, writes)
         /\ apLast' = [kind |-> "render", prevRef |-> <<>>, writes |-> writes]
  /\ UNCHANGED <<handleVars, arrowsVars>>

\* a later render with new props, commit, layout effect if its dependency changed
APRender(props) ==
  /\ apMounted
  /\ LET writes == IF LayoutEffectRuns(FALSE, apDeps, <<props.connectorRef>>)
                   THEN LayoutEffectWrites(props, apAnchor) ELSE <<>>
     IN  /\ apProps' = props
         /\ apView' = APRenderView(props)
         /\ apDeps' = <<props.connectorRef>>
         /\ cells' = ApplyWrites(cells, writes)
         /\ apLast' = [kind |-> "render", prevRef |-> <<apProps.connectorRef>>,
                       writes |-> writes]
  /\ UNCHANGED <<apMounted, apMounts, apAnchor>>
  /\ UNCHANGED <<handleVars, arrowsVars>>

\* unmount: React detaches the ref of the anchor div; the effect has no cleanup
APUnmount ==
  /\ apMounted
  /\ apMounted' = FALSE
  /\ apAnchor' = NullRef
  /\ apLast' = [kind |-> "unmount", prevRef |-> <<>>, writes |-> <<>>]
  /\ UNCHANGED <<apMounts, apProps, apDeps, apView, cells>>
  /\ UNCHANGED <<handleVars, arrowsVars>>

\* the owner of a cell resets it
OwnerResetsCell(c) ==
  /\ cells[c] # NullRef
  /\ cells' = [cells EXCEPT ![c] = NullRef]
  /\ apLast' = [kind |-> "owner", prevRef |-> <<>>, writes |-> <<>>]
  /\ UNCHANGED <<apMounted, apMounts, apProps, apAnchor, apDeps, apView>>
  /\ UNCHANGED <<handleVars, arrowsVars>>

InitAccessPoint == APIdle /\ HandleIdle /\ ArrowsIdle

NextAccessPoint ==
  \/ \E props \in APPropsSet : APMount(props)
  \/ \E props \in APPropsSet : APRender(props)
  \/ APUnmount
  \/ \E c \in CellIds : OwnerResetsCell(c)

SpecAccessPoint == InitAccessPoint /\ [][NextAccessPoint]_vars

\* C9: after the layout step of a render whose connectorRef is a cell that
\* differs from the connectorRef of the previous render (or that is the first
\* render) the cell holds the anchor element and was written exactly once;
\* a render with the same connectorRef, or with none, writes no cell.
C9_ConnectorRefPublished ==
  apLast.kind = "render" =>
    LET ref == apProps.connectorRef
        changed == apLast.prevRef # <<ref>>
    IN  /\ (ref # Undefined /\ changed) =>
              /\ cells[ref] = apAnchor
              /\ apAnchor # NullRef
              /\ apLast.writes = <<[cell |-> ref, value |-> apAnchor]>>
        /\ (ref # Undefined /\ ~changed) => apLast.writes = <<>>
        /\ ref = Undefined => apLast.writes = <<>>

\* a re-render of the second mount that swaps cellA for cellB
C9_Witness ==
  /\ apLast.kind = "render"
  /\ apLast.prevRef = <<"cellA">>
  /\ apProps.connectorRef = "cellB"
  /\ apMounts = 2
  /\ cells["cellB"] = <<2>>
  /\ cells["cellA"] = <<2>>
  /\ apLast.writes = <<[cell |-> "cellB", value |-> <<2>>]>>

\* C10: the L7 label is rendered iff l7Protocol is defined and is not Unknown
C10_L7LabelIff ==
  apMounted =>
    (apView.l7Label <=>
       (apProps.l7Protocol # Undefined /\ apProps.l7Protocol # L7Unknown))

C10_Witness ==
  /\ apMounted
  /\ apProps.l7Protocol = L7Unknown
  /\ ~apView.l7Label

(***************************************************************************)
(* manageArrows called on one g element, call after call                   *)
(***************************************************************************)
\* one call manageArrows(p, g)
Pass(p) ==
  /\ LET done == manageArrows(p, scene)
     IN  scene' = done.scene /\ flat' = done.flat
  /\ lastArgs' = p
  /\ ran' = TRUE
  /\ tick' = 1 - tick
  /\ UNCHANGED <<mounted, rootRef, arProps, arRefs, deps, effect, lastRefs>>
  /\ UNCHANGED <<handleVars, apVars>>

FlattenInputs ==
  PropsOver(SenderIds, ReceiverIds, ApIds, {Vec(0, 0)}, {LongPath, ShortPath},
            MaxReceivers, MaxFanOut)

PassInputs ==
  PropsOver(SenderIds, ReceiverIds, {<<"a">>}, {Vec(0, 0)}, {LongPath}, 1, 1)

RenderInputs ==
  PropsOver({<<"s">>}, {<<"r">>}, {<<"a">>}, {Vec(0, 0)}, {LongPath}, 1, 1)

Init == HandleIdle /\ APIdle /\ ArrowsIdle

FirstPass == \E p \in FlattenInputs : ~ran /\ Pass(p)

ManageArrowsPass == \E p \in PassInputs : Pass(p)

NextFlatten == FirstPass

Next == ManageArrowsPass

\* the first call on an empty scene, for every input
SpecFlatten == Init /\ [][NextFlatten]_vars

\* any sequence of calls
Spec == Init /\ [][Next]_vars

(***************************************************************************)
(* The component: mount, render, the passive effect, unmount.  React runs  *)
(* a pending passive effect before it renders or unmounts again.           *)
(***************************************************************************)
\* the effect body of a pending effect, if any
Flushed ==
  IF effect = <<>> \/ rootRef = <<>>
  THEN [scene |-> scene, flat |-> flat, lastArgs |-> lastArgs,
        lastRefs |-> lastRefs, ran |-> ran, tick |-> tick]
  ELSE [scene |-> manageArrows(effect[1].props, scene).scene,
        flat |-> manageArrows(effect[1].props, scene).flat,
        lastArgs |-> effect[1].props,
        lastRefs |-> effect[1].refs,
        ran |-> TRUE, tick |-> 1 - tick]

SetFlushed(f) ==
  /\ flat' = f.flat
  /\ lastArgs' = f.lastArgs
  /\ lastRefs' = f.lastRefs
  /\ ran' = f.ran
  /\ tick' = f.tick

Mount(p) ==
  /\ ~mounted
  /\ mounted' = TRUE
  /\ rootRef' = <<"g">>
  /\ arProps' = p
  /\ arRefs' = [arrows |-> 0, apPositions |-> 0]
  /\ deps' = DepsOf(arRefs')
  /\ effect' = IF EffectScheduled(TRUE, <<>>, deps')
               THEN <<[props |-> p, refs |-> arRefs']>> ELSE <<>>
  /\ scene' = EmptyScene
  /\ ran' = FALSE
  /\ UNCHANGED <<flat, lastArgs, lastRefs, tick>>
  /\ UNCHANGED <<handleVars, apVars>>

\* the parent renders the component with the Map objects refs; an object that
\* is the one of the previous render has the content it had
Render(p, refs) ==
  /\ mounted
  /\ refs.arrows = arRefs.arrows => p.arrows = arProps.arrows
  /\ refs.apPositions = arRefs.apPositions => p.apPositions = arProps.apPositions
  /\ LET f == Flushed
     IN  /\ SetFlushed(f)
         /\ scene' = f.scene
  /\ arProps' = p
  /\ arRefs' = refs
  /\ deps' = DepsOf(refs)
  /\ effect' = IF EffectScheduled(FALSE, deps, deps')
               THEN <<[props |-> p, refs |-> refs]>> ELSE <<>>
  /\ UNCHANGED <<mounted, rootRef>>
  /\ UNCHANGED <<handleVars, apVars>>

RunEffect ==
  /\ mounted
  /\ effect # <<>>
  /\ LET f == Flushed
     IN  /\ SetFlushed(f)
         /\ scene' = f.scene
  /\ effect' = <<>>
  /\ UNCHANGED <<mounted, rootRef, arProps, arRefs, deps>>
  /\ UNCHANGED <<handleVars, apVars>>

Unmount ==
  /\ mounted
  /\ SetFlushed(Flushed)
  /\ mounted' = FALSE
  /\ rootRef' = <<>>
  /\ scene' = EmptyScene
  /\ effect' = <<>>
  /\ UNCHANGED <<arProps, arRefs, deps>>
  /\ UNCHANGED <<handleVars, apVars>>

NextComponent ==
  \/ \E p \in RenderInputs : Mount(p)
  \/ \E p \in RenderInputs : \E refs \in RefPairs : Render(p, refs)
  \/ RunEffect
  \/ Unmount

\* the footprint of a step that runs the pending effect while the component
\* stays mounted with the same props: React runs every scheduled passive
\* effect, at the latest before it renders the component again
EffectFlushed ==
  /\ mounted
  /\ effect # <<>>
  /\ effect' = <<>>
  /\ UNCHANGED <<mounted, rootRef, arProps, arRefs, deps>>

SpecComponent == Init /\ [][NextComponent]_vars /\ WF_effect(EffectFlushed)

(***************************************************************************)
(* Claims about manageArrows                                               *)
(***************************************************************************)
NodeOfKey(group, k) == group[FirstNode(group, k)]

\* the (sender, receiver, access point) triples of props whose access point
\* has a position
KnownTriples(p) ==
  {t \in SenderIds \X ReceiverIds \X ApIds :
     /\ t[1] \in DOMAIN p.arrows
     /\ t[2] \in DOMAIN p.arrows[t[1]].arrows
     /\ t[3] \in p.arrows[t[1]].arrows[t[2]].connector.apIds
     /\ t[3] \in DOMAIN p.apPositions}

FeetEntry(p, t) ==
  [key |-> t[1] \o <<SEP>> \o t[2] \o <<SEP>> \o t[3],
   val |-> <<p.arrows[t[1]].arrows[t[2]].connector.position, p.apPositions[t[3]]>>]

DistinctKeys(s) == \A i, j \in 1..Len(s) : i # j => s[i].key # s[j].key

\* C3: no two entries of a flattened collection have the same key
C3_KeysUnique == ran => \A g \in Groups : DistinctKeys(flat[g])

\* C1: after a pass the elements of each group correspond one-to-one to the
\* keys flattened from its input; an element whose key was there before the
\* pass and still is, is the same element; an element of a new key is a new
\* element; the element of a key that is gone is removed.
C1_Step ==
  \A g \in Groups :
    /\ Keys(scene'[g]) = Keys(flat'[g])
    /\ Len(scene'[g]) = Cardinality(Keys(flat'[g]))
    /\ \A i \in 1..Len(scene'[g]) : \A j \in 1..Len(scene[g]) :
         scene'[g][i].key = scene[g][j].key => scene'[g][i].id = scene[g][j].id
    /\ \A i \in 1..Len(scene'[g]) :
         scene'[g][i].key \notin Keys(scene[g]) => scene'[g][i].id \notin Ids(scene[g])
    /\ \A j \in 1..Len(scene[g]) :
         scene[g][j].key \notin Keys(flat'[g]) => scene[g][j].id \notin Ids(scene'[g])

C1_NodesFollowKeys == [][C1_Step]_vars

\* the keys that the entries of sender s have in group g
KeysOfSender(p, s, g) ==
  LET rs == DOMAIN p.arrows[s].arrows
  IN  CASE g = "startPlates" -> {s}
        [] g = "feets" ->
             UNION {{s \o <<SEP>> \o r \o <<SEP>> \o a :
                       a \in p.arrows[s].arrows[r].connector.apIds} : r \in rs}
        [] OTHER -> {s \o <<SEP>> \o r : r \in rs}

\* C4: when a sender of one pass is absent from the next pass, no element
\* keyed by it (start-plate, arrow, connector, feet) is left after that pass,
\* and the elements of the senders in both passes whose keys are still
\* flattened are still there.
C4_Step ==
  \A s \in DOMAIN lastArgs.arrows \ DOMAIN lastArgs'.arrows :
    \A g \in Groups :
      /\ Keys(scene'[g]) \cap KeysOfSender(lastArgs, s, g) = {}
      /\ \A s2 \in DOMAIN lastArgs.arrows \cap DOMAIN lastArgs'.arrows :
           \A j \in 1..Len(scene[g]) :
             (/\ scene[g][j].key \in KeysOfSender(lastArgs, s2, g)
              /\ scene[g][j].key \in KeysOfSender(lastArgs', s2, g)
              /\ g = "feets" => scene[g][j].key \in Keys(flat'[g]))
               => scene[g][j].id \in Ids(scene'[g])

C4_RemovedSenderLeavesNothing == [][C4_Step]_vars

\* C5: a second pass with the input of the first leaves the keys of the four
\* collections as they were and neither creates nor removes an element.
C5_Step ==
  (ran /\ lastArgs' = lastArgs) =>
    \A g \in Groups :
      /\ Keys(flat'[g]) = Keys(flat[g])
      /\ Keys(scene'[g]) = Keys(scene[g])
      /\ Ids(scene'[g]) = Ids(scene[g])

C5_SecondPassIdempotent == [][C5_Step]_vars

(***************************************************************************)
(* Claims about the component                                              *)
(***************************************************************************)
C6_SceneOfProps ==
  (mounted /\ effect = <<>>) =>
    /\ ran
    /\ lastArgs = arProps
    /\ \A g \in Groups : Keys(scene[g]) = Keys(Flatten(arProps)[g])

C6_PassOnlyOnChange == (tick' # tick) => (~ran \/ lastRefs' # lastRefs)

====
